---- MODULE Spec2Model ----
(***************************************************************************)
(* Model of the UNHCR Geodata Extractor (src/main.py): the aggregation     *)
(* pipeline process_country with its two remote queries, the Streamlit     *)
(* script that reruns top to bottom on every UI event and keeps its        *)
(* results in st.session_state, and the "Fix renaming" loop applied to     *)
(* the features before export.                                             *)
(*                                                                         *)
(* Python values: a dict is a function whose DOMAIN is the set of keys     *)
(* present ({} is the empty function), None is NoneV, an int or a str      *)
(* held in a slot that may also hold None is wrapped (IntV, StrV), a list  *)
(* is a sequence.  The remote ArcGIS service is the environment: every     *)
(* HTTP exchange is a nondeterministic choice among the answers the        *)
(* service can give to the request that was sent.                          *)
(***************************************************************************)
EXTENDS Integers, Sequences, FiniteSets, TLC

\* ------------------------------------------------------------------ bounds
MaxPolys == 2      \* features in one polygon-query response
MaxPoints == 2     \* features in one point-query response
NumSites == 3      \* sites per country known to the remote service
MaxRuns == 2       \* process_country invocations explored in one session
MaxFeat == 2       \* features of a collection handed to the renaming loop
MaxPasses == 2     \* renaming passes (script reruns) over one collection

\* ------------------------------------------------------- python values
NoneV == [py |-> "None"]
IntV(n) == [py |-> "int", v |-> n]
StrV(s) == [py |-> "str", v |-> s]
TupleV(t) == [py |-> "tuple", v |-> t]
EmptyDict == << >>

\* dict.get(key, default)
Get(d, key, default) == IF key \in DOMAIN d THEN d[key] ELSE default

\* d[key] = value
Put(d, key, value) == [k \in (DOMAIN d) \cup {key} |-> IF k = key THEN value ELSE d[k]]

\* d.pop(key, None), the dict that is left
Pop(d, key) == [k \in (DOMAIN d) \ {key} |-> d[k]]

\* truth value of a dict or None in an `if`
Truthy(x) == IF DOMAIN x = {} THEN FALSE ELSE x # NoneV

\* truth value of a list in an `if`
TruthyList(s) == Len(s) > 0

BoundedSeq(S, n) == UNION {[1..k -> S] : k \in 0..n}

\* sequences of at most n distinct elements of S
DistinctSeq(S, n) ==
    {s \in BoundedSeq(S, n) : \A i, j \in DOMAIN s : i # j => s[i] # s[j]}

\* --------------------------------------------------- the remote service
Countries == {"KEN", "UGA"}

\* position of a country code in ascending string order (sorted())
Rank(c) == IF c = "KEN" THEN 1 ELSE 2

SiteCode(c, n) == c \o ToString(n)

AllSiteCodes == {SiteCode(c, n) : c \in Countries, n \in 1..NumSites}

SiteName(code) == "Camp " \o code

\* positions of the two sliders, <<points, polygons>>, in thousandths of a
\* degree: the defaults (value=0.01, value=0.0) and both moved
SliderSettings == {<<10, 0>>, <<25, 5>>}

HttpError == [status |-> "error"]
HttpOk(json) == [status |-> "ok", json |-> json]

\* a 200 body that is a dict without a "features" member
ErrorBody == [error |-> "400"]

FeatureCollection(features) == [type |-> "FeatureCollection", features |-> features]

\* a record of the polygon layer wrl_prp_a_unhcr
PolygonRecord(code) ==
    [type |-> "Feature",
     geometry |-> [type |-> "Polygon", coordinates |-> code],
     properties |-> [site_code |-> code, name |-> SiteName(code)]]

\* a record of the point layer wrl_prp_p_unhcr_PoC
PointRecord(code) ==
    [type |-> "Feature",
     geometry |-> [type |-> "Point", coordinates |-> code],
     properties |-> [pcode |-> code, gis_name |-> SiteName(code)]]

StartsWith(s, prefix) ==
    Len(s) >= Len(prefix) /\ SubSeq(s, 1, Len(prefix)) = prefix

\* the answers the service can give to the polygon query: the records whose
\* site_code matches the LIKE pattern, in any order and number, or a refusal
PolygonResponses(params) ==
    LET prefix == SubSeq(params.like, 1, Len(params.like) - 1)
        codes == {c \in AllSiteCodes : StartsWith(c, prefix)}
    IN  {HttpError, HttpOk(ErrorBody)} \cup
        {HttpOk(FeatureCollection([i \in DOMAIN s |-> PolygonRecord(s[i])])) :
            s \in DistinctSeq(codes, MaxPolys)}

Unquote(q) == SubSeq(q, 2, Len(q) - 1)

\* the answers the service can give to the point query.  "NOT IN ()" is not
\* a valid predicate: the service refuses it (HTTP error or error body).
\* Otherwise it honours the predicate: records of the country whose pcode is
\* not in the list
PointResponses(where_clause) ==
    LET excluded == {Unquote(where_clause.not_in[i]) : i \in DOMAIN where_clause.not_in}
        codes == {c \in AllSiteCodes :
                    StartsWith(c, where_clause.iso3) /\ c \notin excluded}
    IN  IF where_clause.not_in = << >>
        THEN {HttpError, HttpOk(ErrorBody)}
        ELSE {HttpError, HttpOk(ErrorBody)} \cup
             {HttpOk(FeatureCollection([i \in DOMAIN s |-> PointRecord(s[i])])) :
                s \in DistinctSeq(codes, MaxPoints)}

\* the answers to the unfiltered query of list_countries, properties only
ListResponses ==
    {HttpError,
     HttpOk(FeatureCollection(<<[properties |-> [site_code |-> "UGA1"]],
                                [properties |-> [site_code |-> "KEN1"]]>>))}

\* ------------------------------------------------ the functions of main.py
Range(s) == {s[i] : i \in DOMAIN s}

\* sorted(list(set(codes))) for country codes
Sorted(S) ==
    CHOOSE s \in [1..Cardinality(S) -> S] :
        /\ Range(s) = S
        /\ \A i, j \in DOMAIN s : i < j => Rank(s[i]) < Rank(s[j])

list_countries(http) ==
    IF http.status = "error"
    THEN << >>
    ELSE LET features == Get(http.json, "features", << >>)
             site_codes == [i \in DOMAIN features |->
                               SubSeq(features[i].properties.site_code, 1, 3)]
         IN  Sorted(Range(site_codes))

\* extract_site_codes with an off-by-one: the last feature is skipped
extract_site_codes_skip_last(country_data) ==
    LET features == Get(country_data, "features", << >>)
    IN  [i \in 1..(Len(features) - 1) |-> features[i].properties.site_code]

extract_site_codes(country_data) ==
    LET features == Get(country_data, "features", << >>)
    IN  [i \in DOMAIN features |-> features[i].properties.site_code]

\* the 'where' parameter query_points sends
points_where_clause(country_code, site_codes) ==
    [iso3 |-> country_code,
     not_in |-> [i \in DOMAIN site_codes |-> "'" \o site_codes[i] \o "'"]]

\* query_points without the "Add feature type" loop
query_points_untagged(country_code, site_codes, http) ==
    IF http.status = "error" THEN EmptyDict ELSE http.json

\* the value query_points returns when the service answers http
query_points(country_code, site_codes, http) ==
    IF http.status = "error"
    THEN EmptyDict
    ELSE LET data == http.json
         IN  IF "features" \in DOMAIN data
             THEN Put(data, "features",
                      [i \in DOMAIN data.features |->
                          [data.features[i] EXCEPT !.properties =
                              Put(@, "feature_type", "Point")]])
             ELSE data

\* the 'where' parameter query_polygons sends
polygons_where_clause(country_code) == [like |-> country_code \o "%"]

\* mapping(shape(g).buffer(d)): the polygon of everything within d of g
Buffer(g, d) == [type |-> "Polygon", buffer_of |-> g, distance |-> d]

\* the value query_polygons returns when the service answers http
query_polygons(country_code, buffer_size_poly, http) ==
    IF http.status = "error"
    THEN EmptyDict
    ELSE LET data == http.json
         IN  IF "features" \in DOMAIN data
             THEN Put(data, "features",
                      [i \in DOMAIN data.features |->
                          [data.features[i] EXCEPT
                              !.geometry = Buffer(@, buffer_size_poly),
                              !.properties = Put(@, "feature_type", "Polygon")]])
             ELSE data

\* gen_polygons that builds its list by prepending
gen_polygons_reversed(data, buffer_size) ==
    LET features == Get(data, "features", << >>)
        n == Len(features)
        buffered_features ==
            [i \in DOMAIN features |->
                [type |-> "Feature",
                 geometry |-> Buffer([type |-> "Point",
                                      coordinates |-> features[n + 1 - i].geometry.coordinates],
                                     buffer_size),
                 properties |-> features[n + 1 - i].properties]]
    IN  [type |-> "FeatureCollection", features |-> buffered_features]

gen_polygons(data, buffer_size) ==
    LET features == Get(data, "features", << >>)
        buffered_features ==
            [i \in DOMAIN features |->
                [type |-> "Feature",
                 geometry |-> Buffer([type |-> "Point",
                                      coordinates |-> features[i].geometry.coordinates],
                                     buffer_size),
                 properties |-> features[i].properties]]
    IN  [type |-> "FeatureCollection", features |-> buffered_features]

\* what one call of process_country does, given the answers of the service
\* to the queries it sends: the value it returns (ret) or the exception that
\* escapes it (raised), what it sent and received on the way, whether
\* st.error was called and what was printed
NoRun ==
    [called |-> FALSE, country_code |-> "",
     buffer_size_points |-> 0, buffer_size_poly |-> 0,
     polygons_http |-> "none", polygons_received |-> << >>,
     points_called |-> FALSE, where |-> [iso3 |-> "", not_in |-> << >>],
     points_http |-> "none", points_received |-> << >>,
     st_error |-> FALSE, stdout |-> << >>, raised |-> "none", ret |-> NoneV]

\* the features of a 200 body, as received
Received(http) ==
    IF http.status = "error" THEN << >> ELSE Get(http.json, "features", << >>)

HttpKind(http) ==
    IF http.status = "error" THEN "error"
    ELSE IF "features" \notin DOMAIN http.json THEN "no_features_member"
    ELSE IF http.json.features = << >> THEN "zero_features"
    ELSE "features"

process_country(country_code, buffer_size_points, buffer_size_poly, polyHttp, pointsHttp) ==
    LET official_polygons == query_polygons(country_code, buffer_size_poly, polyHttp)
        started == [NoRun EXCEPT !.called = TRUE, !.country_code = country_code,
                                 !.buffer_size_points = buffer_size_points,
                                 !.buffer_size_poly = buffer_size_poly,
                                 !.polygons_http = HttpKind(polyHttp),
                                 !.polygons_received = Received(polyHttp),
                                 !.st_error = (polyHttp.status = "error")]
    IN  IF ~Truthy(official_polygons)
        THEN [started EXCEPT !.stdout = <<"No data found for the country">>]
        ELSE IF "features" \notin DOMAIN official_polygons
        THEN [started EXCEPT !.raised = "KeyError:155"]
        ELSE
        LET n_polygons == Len(official_polygons.features)
            site_codes == extract_site_codes(official_polygons)
            points_data == query_points(country_code, site_codes, pointsHttp)
            no_points == ~Truthy(points_data) \/ ~TruthyList(Get(points_data, "features", << >>))
            n_points == IF no_points THEN 0 ELSE Len(points_data.features)
            generated_polygons == gen_polygons(points_data, buffer_size_points)
            country_polygons ==
                IF TruthyList(generated_polygons.features)
                THEN official_polygons.features \o generated_polygons.features
                ELSE official_polygons.features
            country_data == [type |-> "FeatureCollection", features |-> country_polygons]
        IN  [started EXCEPT
                !.points_called = TRUE,
                !.where = points_where_clause(country_code, site_codes),
                !.points_http = HttpKind(pointsHttp),
                !.points_received = Received(pointsHttp),
                !.stdout = <<"Successfully fetched official polygons">> \o
                           (IF pointsHttp.status = "error"
                            THEN <<"Failed to fetch data">> ELSE << >>) \o
                           (IF no_points THEN <<"No points data found">>
                            ELSE <<"Successfully fetched points">>),
                !.ret = TupleV(<<country_data, n_polygons, n_points>>)]

\* the renaming with the keys copied instead of popped
fix_renaming_feature_copy(feature) ==
    LET p0 == feature.properties
        p1 == IF "pcode" \in DOMAIN p0 THEN Put(p0, "site_code", p0["pcode"]) ELSE p0
        p2 == IF "gis_name" \in DOMAIN p1 THEN Put(p1, "name", p1["gis_name"]) ELSE p1
    IN  [feature EXCEPT !.properties = p2]

\* the renaming without its guards, as pop(key, None): a feature without
\* the source key gets None (written "None" here) under the new key
fix_renaming_feature_unguarded(feature) ==
    LET p0 == feature.properties
        p1 == Put(Pop(p0, "pcode"), "site_code", Get(p0, "pcode", "None"))
        p2 == Put(Pop(p1, "gis_name"), "name", Get(p1, "gis_name", "None"))
    IN  [feature EXCEPT !.properties = p2]

\* the "Fix renaming" loop over the features of the session collection
fix_renaming_feature(feature) ==
    LET p0 == feature.properties
        p1 == IF "pcode" \in DOMAIN p0
              THEN Put(Pop(p0, "pcode"), "site_code", p0["pcode"])
              ELSE p0
        p2 == IF "gis_name" \in DOMAIN p1
              THEN Put(Pop(p1, "gis_name"), "name", p1["gis_name"])
              ELSE p1
    IN  [feature EXCEPT !.properties = p2]

fix_renaming(fs) == [i \in DOMAIN fs |-> fix_renaming_feature(fs[i])]

\* one row of the bounding-box table of the export
bounding_box_row(feature) ==
    [id |-> Get(feature.properties, "site_code", "unknown"),
     feature_type |-> Get(feature.properties, "feature_type", "unknown"),
     feature_name |-> Get(feature.properties, "name", "unknown"),
     bounds_of |-> feature.geometry]

\* ------------------------------------------------- the Streamlit script
\* An entry of st.session_state: the value, and the process_country run
\* whose result it is (its number and its country; NoStamp: not the result
\* of a run)
RunStamp(id, code) == [id |-> id, country_code |-> code]

NoStamp == [id |-> 0, country_code |-> NoneV]

Entry(value, by) == [v |-> value, by |-> by]

ResultKeys == {"country_data", "n_polygons", "n_points", "feature_count"}

SessionDefaults ==
    [imagery_dates |-> [py |-> "list", v |-> << >>],
     previous_country_code |-> NoneV,
     country_data |-> NoneV,
     n_polygons |-> NoneV,
     n_points |-> NoneV,
     feature_count |-> NoneV,
     map_data |-> NoneV]

initialize_session_state(ss) ==
    [key \in (DOMAIN ss) \cup (DOMAIN SessionDefaults) |->
        IF key \in DOMAIN ss THEN ss[key] ELSE Entry(SessionDefaults[key], NoStamp)]

\* the value st.sidebar.selectbox can return for these options when it
\* returned previous in the last run: the option the user picks or has
\* picked, the first option when the options changed, None without options
selectbox_values(options, previous) ==
    IF options = << >>
    THEN {NoneV}
    ELSE {StrV(options[1])} \cup
         ({previous} \cap {StrV(options[i]) : i \in DOMAIN options})

\* the values the user can pick
selectbox_options(options) == {StrV(options[i]) : i \in DOMAIN options}

\* the reset forgetting the three counts
country_change_reset_data_only(ss, code) ==
    IF ss["previous_country_code"].v # code
    THEN Put(Pop(ss, "country_data"), "previous_country_code", Entry(code, NoStamp))
    ELSE ss

\* "Clear sidebar info if the country_code has changed"
country_change_reset(ss, code) ==
    IF ss["previous_country_code"].v # code
    THEN LET cleared == IF "country_data" \in DOMAIN ss
                        THEN Pop(Pop(Pop(Pop(ss, "country_data"), "n_polygons"),
                                     "n_points"), "feature_count")
                        ELSE ss
         IN  Put(cleared, "previous_country_code", Entry(code, NoStamp))
    ELSE ss

\* the handler taking len(country_data), the number of keys of the dict, for
\* the feature count
load_country_len_of_dict(ss, code, r, id) ==
    IF ~r.called
    THEN [session |-> ss, exc |-> "none", ui |-> {"warning: Please select a country"}]
    ELSE IF r.raised # "none"
    THEN [session |-> ss, exc |-> r.raised, ui |-> {}]
    ELSE IF r.ret = NoneV
    THEN [session |-> ss, exc |-> "TypeError:309", ui |-> {}]
    ELSE LET by == RunStamp(id, code)
         IN  [session |->
                 Put(Put(Put(Put(ss,
                     "country_data", Entry(r.ret.v[1], by)),
                     "n_polygons", Entry(IntV(r.ret.v[2]), by)),
                     "n_points", Entry(IntV(r.ret.v[3]), by)),
                     "feature_count", Entry(IntV(Cardinality(DOMAIN r.ret.v[1])), by)),
              exc |-> "none", ui |-> {}]

\* the handler of the "Load country" button, given the run of
\* process_country it makes (NoRun when it makes none); run number id
load_country(ss, code, r, id) ==
    IF ~r.called
    THEN [session |-> ss, exc |-> "none", ui |-> {"warning: Please select a country"}]
    ELSE LET said == IF r.st_error THEN {"error: Failed to fetch data (polygons)"} ELSE {}
         IN  IF r.raised # "none"
             THEN [session |-> ss, exc |-> r.raised, ui |-> said]
             ELSE IF r.ret = NoneV
             THEN [session |-> ss, exc |-> "TypeError:309", ui |-> said]
             ELSE LET country_data == r.ret.v[1]
                      n_polygons == r.ret.v[2]
                      n_points == r.ret.v[3]
                      by == RunStamp(id, code)
                  IN  IF Truthy(country_data)
                      THEN [session |->
                               Put(Put(Put(Put(ss,
                                   "country_data", Entry(country_data, by)),
                                   "n_polygons", Entry(IntV(n_polygons), by)),
                                   "n_points", Entry(IntV(n_points), by)),
                                   "feature_count", Entry(IntV(n_points + n_polygons), by)),
                            exc |-> "none", ui |-> said]
                      ELSE [session |-> ss, exc |-> "none", ui |-> said]

\* "Display Features and Export Option": the sidebar counts and the renaming
\* loop, which works on the feature dicts of the session collection itself.
\* (The map and the imagery dates in between read the features only.)
display(ss) ==
    IF "country_data" \notin DOMAIN ss
    THEN [session |-> ss, exc |-> "none", ui |-> {}]
    ELSE IF ss["country_data"].v = NoneV
    THEN [session |-> ss, exc |-> "TypeError:321", ui |-> {}]
    ELSE IF "features" \notin DOMAIN ss["country_data"].v
    THEN [session |-> ss, exc |-> "KeyError:321", ui |-> {}]
    ELSE IF ~({"feature_count", "n_points", "n_polygons"} \subseteq DOMAIN ss)
    THEN [session |-> ss, exc |-> "KeyError:323", ui |-> {}]
    ELSE LET features == ss["country_data"].v.features
             renamed == Put(ss["country_data"].v, "features", fix_renaming(features))
         IN  [session |-> Put(ss, "country_data", Entry(renamed, ss["country_data"].by)),
              exc |-> "none", ui |-> {"info: Number of features"}]

\* one run of the script, top to bottom: code is the value of the country
\* selectbox, button whether "Load country" was pressed, r the run of
\* process_country the handler makes, listHttp the answer to list_countries
script(ss, listHttp, code, button, r, id) ==
    LET s1 == initialize_session_state(ss)
        listed == IF listHttp.status = "error"
                  THEN {"error: Failed to fetch data (countries)"} ELSE {}
        s2 == country_change_reset(s1, code)
        loaded == IF button
                  THEN load_country(s2, code, r, id)
                  ELSE [session |-> s2, exc |-> "none", ui |-> {}]
        shown == IF loaded.exc = "none"
                 THEN display(loaded.session)
                 ELSE [session |-> loaded.session, exc |-> loaded.exc, ui |-> {}]
    IN  [session |-> shown.session, exc |-> shown.exc,
         ui |-> listed \cup loaded.ui \cup shown.ui]

\* ------------------------------------------------------------- the state
VARIABLES
    session,        \* st.session_state
    country_code,   \* the value of the country selectbox in the last script run
    run,            \* the process_country call of the last script run (NoRun: none)
    exc,            \* the exception that ended the last script run, or "none"
    ui,             \* the messages the last script run put on the page
    nruns,          \* process_country calls so far
    original,       \* a collection as handed to the renaming loop
    features,       \* the same collection after `passes` renaming passes
    passes

vars == <<session, country_code, run, exc, ui, nruns, original, features, passes>>

Init ==
    /\ session = EmptyDict
    /\ country_code = NoneV
    /\ run = NoRun
    /\ exc = "none"
    /\ ui = {}
    /\ nruns = 0
    /\ original = << >>
    /\ features = << >>
    /\ passes = 0

Finish(out, code, r) ==
    /\ session' = out.session
    /\ country_code' = code
    /\ run' = r
    /\ exc' = out.exc
    /\ ui' = out.ui
    /\ UNCHANGED <<original, features, passes>>

\* a script run triggered by anything but the button or the selectbox: the
\* first page load, a slider move, a map interaction
Rerun ==
    \E listHttp \in ListResponses :
      LET options == list_countries(listHttp)
      IN  \E code \in selectbox_values(options, country_code) :
            /\ Finish(script(session, listHttp, code, FALSE, NoRun, 0), code, NoRun)
            /\ UNCHANGED nruns

\* the script has run at least once, so the page shows its widgets
PageShown == session # EmptyDict

\* the user picks another country in the selectbox
SelectCountry ==
    /\ PageShown
    /\ \E listHttp \in ListResponses :
         LET options == list_countries(listHttp)
         IN  \E code \in selectbox_options(options) :
               /\ code # country_code
               /\ Finish(script(session, listHttp, code, FALSE, NoRun, 0), code, NoRun)
               /\ UNCHANGED nruns

\* the user presses "Load country"
LoadCountry ==
    /\ PageShown
    /\ nruns < MaxRuns
    /\ \E listHttp \in ListResponses :
         LET options == list_countries(listHttp)
         IN  \E code \in selectbox_values(options, country_code) :
               /\ IF Truthy(code)
                  THEN \E sliders \in SliderSettings,
                          polyHttp \in PolygonResponses(polygons_where_clause(code.v)) :
                         LET buffer_size_points == sliders[1]
                             buffer_size_poly == sliders[2]
                             site_codes == extract_site_codes(
                                 query_polygons(code.v, buffer_size_poly, polyHttp))
                         IN  \E pointsHttp \in PointResponses(
                                     points_where_clause(code.v, site_codes)) :
                               LET r == process_country(code.v, buffer_size_points,
                                            buffer_size_poly, polyHttp, pointsHttp)
                               IN  /\ Finish(script(session, listHttp, code, TRUE, r,
                                                    nruns + 1), code, r)
                                   /\ nruns' = nruns + 1
                  ELSE /\ Finish(script(session, listHttp, code, TRUE, NoRun, 0),
                                 code, NoRun)
                       /\ UNCHANGED nruns

Next == Rerun \/ SelectCountry \/ LoadCountry

Spec == Init /\ [][Next]_vars

\* ---------------------------------------------- the renaming loop alone
\* The collections handed to the renaming loop: every feature carries its
\* feature_type and any of the keys of the two layers
NormValues(key) ==
    IF key = "site_code" THEN {"KEN1"}
    ELSE IF key = "pcode" THEN {"KEN2"}
    ELSE IF key = "name" THEN {"Camp KEN1"}
    ELSE IF key = "gis_name" THEN {"Camp KEN2"}
    ELSE {"Polygon", "Point"}

NormProperties ==
    LET keys == {"site_code", "name", "pcode", "gis_name", "feature_type"}
        values == UNION {NormValues(k) : k \in keys}
    IN  UNION {{p \in [K \cup {"feature_type"} -> values] :
                    \A k \in DOMAIN p : p[k] \in NormValues(k)} :
                  K \in SUBSET (keys \ {"feature_type"})}

NormFeatures ==
    {[type |-> "Feature",
      geometry |-> [type |-> "Polygon", coordinates |-> "KEN"],
      properties |-> p] : p \in NormProperties}

NormInit ==
    /\ session = EmptyDict
    /\ country_code = NoneV
    /\ run = NoRun
    /\ exc = "none"
    /\ ui = {}
    /\ nruns = 0
    /\ original \in BoundedSeq(NormFeatures, MaxFeat)
    /\ features = original
    /\ passes = 0

\* one more script run reaches the renaming loop with the same feature dicts
RenamingPass ==
    /\ passes < MaxPasses
    /\ features' = fix_renaming(features)
    /\ passes' = passes + 1
    /\ UNCHANGED <<session, country_code, run, exc, ui, nruns, original>>

NormNext == RenamingPass

NormSpec == NormInit /\ [][NormNext]_vars

\* ------------------------------------------------------------ properties
\* the last script run called process_country and got a collection back
Succeeded == run.called /\ run.raised = "none" /\ run.ret # NoneV

\* the features of the collection process_country returned
Returned == run.ret.v[1].features

\* the session holds a collection
HasCollection ==
    "country_data" \in DOMAIN session /\ session["country_data"].v # NoneV

SessionFeatures == session["country_data"].v.features

TypeOf(feature) == Get(feature.properties, "feature_type", "untagged")

\* the site identifier of a feature, before or after the renaming
IdOf(feature) ==
    IF "pcode" \in DOMAIN feature.properties
    THEN feature.properties["pcode"]
    ELSE Get(feature.properties, "site_code", "unknown")

CountType(fs, t) == Cardinality({i \in DOMAIN fs : TypeOf(fs[i]) = t})

NoSharedId(fs) ==
    \A i, j \in DOMAIN fs :
        (TypeOf(fs[i]) = "Point" /\ TypeOf(fs[j]) = "Polygon") => IdOf(fs[i]) # IdOf(fs[j])

\* C1 (as claimed): when the polygon fetch yields an empty collection, by a
\* failure or by a response with zero features, process_country ends at once
\* with the no-data outcome (None) and never calls query_points.
C1_EmptyPolygonsEndTheRun ==
    (run.called /\ run.polygons_http \in {"error", "zero_features"})
        => (~run.points_called /\ run.raised = "none" /\ run.ret = NoneV)

\* C2 (as claimed): a script run whose "Load country" handler runs the
\* pipeline never ends with an exception, whatever the polygon fetch
\* (failure, zero features, some features) and the point fetch gave.
C2_LoadNeverRaises ==
    (run.called /\ run.polygons_http \in {"error", "zero_features", "features"})
        => exc = "none"

\* C3: the exclusion list sent with the point query is exactly the set of
\* site codes of the polygons received in that run, for the country of the
\* run; so, the service honouring NOT IN, neither the returned collection nor
\* the session collection has a Point feature with the id of a Polygon feature.
C3_ExclusionIsThePolygonIds ==
    /\ run.points_called =>
         /\ {Unquote(run.where.not_in[i]) : i \in DOMAIN run.where.not_in}
               = {run.polygons_received[i].properties.site_code :
                     i \in DOMAIN run.polygons_received}
         /\ run.where.iso3 = run.country_code
    /\ Succeeded => NoSharedId(Returned)
    /\ HasCollection => NoSharedId(SessionFeatures)

C3_Witness ==
    /\ Succeeded
    /\ Len(run.polygons_received) = 2
    /\ Len(run.points_received) = 1
    /\ HasCollection

\* C4: the returned features are the received polygons in the order received
\* (buffered by the polygon buffer), followed by one generated polygon per
\* received point in the order received (the point buffered by the point
\* buffer, with the point's properties); nothing else, nothing missing.
C4_PolygonsThenPointsInOrder ==
    Succeeded =>
        LET P == run.polygons_received
            Q == run.points_received
        IN  /\ Len(Returned) = Len(P) + Len(Q)
            /\ \A i \in DOMAIN P :
                 /\ Returned[i].geometry = Buffer(P[i].geometry, run.buffer_size_poly)
                 /\ \A k \in DOMAIN P[i].properties :
                        /\ k \in DOMAIN Returned[i].properties
                        /\ Returned[i].properties[k] = P[i].properties[k]
            /\ \A j \in DOMAIN Q :
                 /\ Returned[Len(P) + j].geometry
                        = Buffer(Q[j].geometry, run.buffer_size_points)
                 /\ \A k \in DOMAIN Q[j].properties :
                        /\ k \in DOMAIN Returned[Len(P) + j].properties
                        /\ Returned[Len(P) + j].properties[k] = Q[j].properties[k]

C4_Witness ==
    /\ Succeeded
    /\ Len(run.polygons_received) = 1
    /\ Len(run.points_received) = 2
    /\ Len(Returned) = 3

\* C5: the polygon count is the number of Polygon features of the
\* collection, the point count the number of Point features, the feature
\* count their sum and the length of the collection: in what process_country
\* returns and in what the session holds.
C5_CountsMatchTheCollection ==
    /\ Succeeded =>
         /\ run.ret.v[2] = CountType(Returned, "Polygon")
         /\ run.ret.v[3] = CountType(Returned, "Point")
         /\ run.ret.v[2] + run.ret.v[3] = Len(Returned)
         /\ (run.points_http \in {"error", "zero_features"} => run.ret.v[3] = 0)
    /\ HasCollection =>
         /\ {"n_polygons", "n_points", "feature_count"} \subseteq DOMAIN session
         /\ session["n_polygons"].v = IntV(CountType(SessionFeatures, "Polygon"))
         /\ session["n_points"].v = IntV(CountType(SessionFeatures, "Point"))
         /\ session["feature_count"].v = IntV(Len(SessionFeatures))
         /\ session["feature_count"].v
               = IntV(CountType(SessionFeatures, "Polygon") + CountType(SessionFeatures, "Point"))

C5_Witness ==
    /\ Succeeded
    /\ run.points_http = "error"
    /\ HasCollection
    /\ session["n_points"].v = IntV(0)
    /\ session["feature_count"].v = IntV(1)

\* C6: in the returned collection every feature that came from the polygon
\* query is tagged Polygon and every feature generated from a point is
\* tagged Point; in the session collection every feature is tagged one of
\* the two, with the tag it was returned with.
C6_EveryFeatureTagged ==
    /\ Succeeded =>
         /\ Len(Returned) = Len(run.polygons_received) + Len(run.points_received)
         /\ \A i \in DOMAIN Returned :
              TypeOf(Returned[i]) =
                 IF i <= Len(run.polygons_received) THEN "Polygon" ELSE "Point"
    /\ HasCollection =>
         \A i \in DOMAIN SessionFeatures :
            TypeOf(SessionFeatures[i]) \in {"Polygon", "Point"}
    /\ (Succeeded /\ HasCollection) =>
         /\ Len(SessionFeatures) = Len(Returned)
         /\ \A i \in DOMAIN Returned : TypeOf(SessionFeatures[i]) = TypeOf(Returned[i])

C6_Witness ==
    /\ Succeeded
    /\ HasCollection
    /\ \E i, j \in DOMAIN SessionFeatures :
          TypeOf(SessionFeatures[i]) = "Polygon" /\ TypeOf(SessionFeatures[j]) = "Point"

\* C7 (as claimed): after a renaming pass no feature has a pcode or gis_name
\* key, the value a feature had under pcode is under id, and the value it
\* had under gis_name is under name.
C7_RenamedToId ==
    passes >= 1 =>
        \A i \in DOMAIN features :
            LET old == original[i].properties
                new == features[i].properties
            IN  /\ "pcode" \notin DOMAIN new
                /\ "gis_name" \notin DOMAIN new
                /\ "pcode" \in DOMAIN old => ("id" \in DOMAIN new /\ new["id"] = old["pcode"])
                /\ "gis_name" \in DOMAIN old => ("name" \in DOMAIN new /\ new["name"] = old["gis_name"])

\* C7 (amended): after a renaming pass no feature has a pcode or gis_name
\* key, the value a feature had under pcode is under site_code (the key the
\* bounding-box export writes to its id column), the value it had under
\* gis_name is under name, and no property key id is created.
C7_RenamedToSiteCode ==
    passes >= 1 =>
        /\ Len(features) = Len(original)
        /\ \A i \in DOMAIN features :
            LET old == original[i].properties
                new == features[i].properties
            IN  /\ "pcode" \notin DOMAIN new
                /\ "gis_name" \notin DOMAIN new
                /\ "id" \notin DOMAIN new
                /\ "pcode" \in DOMAIN old =>
                      /\ "site_code" \in DOMAIN new
                      /\ new["site_code"] = old["pcode"]
                      /\ bounding_box_row(features[i]).id = old["pcode"]
                /\ "gis_name" \in DOMAIN old =>
                      /\ "name" \in DOMAIN new
                      /\ new["name"] = old["gis_name"]

C7_Witness ==
    /\ passes = 1
    /\ \E i \in DOMAIN original :
          /\ {"pcode", "gis_name", "site_code", "name"} \subseteq DOMAIN original[i].properties
          /\ features[i].properties["site_code"] = "KEN2"
          /\ features[i].properties["name"] = "Camp KEN2"

\* C8: a renaming pass over a collection that has been through one changes
\* no feature: two passes give what one pass gives.
C8_SecondPassChangesNothing ==
    [][passes >= 1 => features' = features]_vars

C8_Witness ==
    /\ passes = 2
    /\ \E i \in DOMAIN original :
          /\ "pcode" \in DOMAIN original[i].properties
          /\ "gis_name" \in DOMAIN original[i].properties
    /\ \E i \in DOMAIN original :
          "pcode" \notin DOMAIN original[i].properties

\* what the caller of process_country gets from a call: the return value or
\* the exception, and the st.error on the page (not what was printed)
Delivered(r) == [ret |-> r.ret, raised |-> r.raised, st_error |-> r.st_error]

\* C9 (as claimed): a failed fetch leaves a reason with the caller: a run
\* whose polygon fetch failed reports it, and a run whose point fetch failed
\* delivers something else than the same run would with a point response of
\* zero features.
C9_FailureReachesTheCaller ==
    /\ (run.called /\ run.polygons_http = "error") => run.st_error
    /\ (run.points_called /\ run.points_http = "error") =>
          Delivered(run) #
             Delivered(process_country(run.country_code, run.buffer_size_points,
                           run.buffer_size_poly,
                           HttpOk(FeatureCollection(run.polygons_received)),
                           HttpOk(FeatureCollection(<< >>))))

\* C10: the four result entries of the session (country_data, n_polygons,
\* n_points, feature_count) are all absent, or all None, or all the result
\* of one and the same process_country run, made for the country now selected.
C10_ResultsReplacedTogether ==
    LET present == ResultKeys \cap DOMAIN session
    IN  \/ present = {}
        \/ /\ present = ResultKeys
           /\ \A k \in ResultKeys : session[k].v = NoneV /\ session[k].by = NoStamp
        \/ /\ present = ResultKeys
           /\ \A k \in ResultKeys :
                /\ session[k].v # NoneV
                /\ session[k].by = session["country_data"].by
           /\ session["country_data"].by.id \in 1..nruns
           /\ session["country_data"].by.country_code = country_code

C10_Witness ==
    /\ ResultKeys \subseteq DOMAIN session
    /\ \A k \in ResultKeys : session[k].by.id = 2
    /\ country_code = StrV("UGA")

\* the last script run reached the display section and passed its guard
\* 'country_data' in st.session_state: no exception ended the run in the
\* button handler before it, and the key is in the session (the section
\* neither adds nor removes it)
DisplayEntered ==
    /\ session # EmptyDict
    /\ exc \notin {"TypeError:309", "KeyError:155"}
    /\ "country_data" \in DOMAIN session

\* C11 (as claimed): whenever a script run enters the display section
\* through its guard, the stored country_data is a collection produced by a
\* process_country run, never the None of initialize_session_state, and
\* reading its features does not fail.
C11_DisplayNeverReadsNone ==
    DisplayEntered =>
        /\ session["country_data"].v # NoneV
        /\ session["country_data"].by.id >= 1
        /\ exc = "none"

====
